---- MODULE Spec2Model ----
(***************************************************************************)
(* State-machine model of hyponcloud.client.HyponCloud: the cached bearer  *)
(* token, the transport session and the four recursive retrying fetch      *)
(* operations.  Every coroutine is modelled by an explicit call stack of   *)
(* frames, one per (recursive) invocation; a step runs a coroutine from    *)
(* one suspension point (network I/O, asyncio.sleep) to the next.          *)
(*                                                                         *)
(* The clock counts half seconds, so that time() has a fractional part and *)
(* int(time()) truncates.                                                  *)
(***************************************************************************)
EXTENDS Integers, Sequences, FiniteSets, TLC

\* ------------------------------------------------------------------ bounds
MaxRetries == 1        \* largest retry budget a caller passes
MaxCalls == 2          \* operations invoked by callers in one behaviour
MaxTicks == 1          \* clock advances other than backoff sleeps
MaxPages == 2          \* largest totalPage the server reports
MaxRecs == 1           \* largest number of records on one inverter page
MaxSessions == 2       \* ClientSession objects the manager creates
MaxWalkPages == 3      \* largest totalPage, in the pagination specification
MaxWalkRecs == 2       \* largest page length, in the pagination specification
MaxAdminCalls == 1     \* calls of get_admin_info, in the admin-info specification
MaxWalkCalls == 1      \* calls of get_inverters, in the pagination specification

\* ------------------------------------------------------- program constants
token_validity == 3600
BackoffSeconds == 10
HTTP_OK == 200
HTTP_UNAUTHORIZED == 401
HTTP_TOO_MANY == 429

\* Non-success statuses other than 401 and 429 that the server may answer.
OtherStatuses == {500}

\* The callers: t1 awaits one operation after the other; t2 and t3 run their
\* operations as concurrent tasks.
Tasks == {"t1", "t2", "t3"}
SeqTasks == {"t1"}
ConcTasks == {"t2", "t3"}
FetchOps == {"get_overview", "get_list", "get_inverters", "get_admin_info"}
Ops == FetchOps \cup {"connect"}
\* The operations run as concurrent tasks: connect() and the single-request
\* fetch operations (get_inverters logs in through the same connect()).
ConcOps == Ops \ {"get_inverters"}
ServerTokens == {"T1", "T2"}

\* ------------------------------------------------------------------- clock
Seconds(s) == 2 * s                 \* seconds as clock units (half seconds)
IntTime(t) == t \div 2              \* int(time()): whole seconds, truncated
TickDeltas == {1, Seconds(token_validity) - 1}
\* The origin of the clock is arbitrary: the code only compares time() with
\* an expiry it derived from time().  When a login replaces the expiry the
\* origin is moved to the whole second of that login, which keeps the
\* fraction of time() and every later comparison.
Rebase(t) == t % 2

\* ------------------------------------------------------- values and errors
NoExc == [type |-> "none", status |-> 0]
Exc(type) == [type |-> type, status |-> 0]
ExcStatus(type, st) == [type |-> type, status |-> st]

\* JSON objects and decoded records are functions from member names to
\* values.
EmptyDict == [k \in {} |-> ""]

NoVal == [type |-> "none", src |-> 0, items |-> <<>>, fields |-> EmptyDict]
NoneVal == [type |-> "None", src |-> 0, items |-> <<>>, fields |-> EmptyDict]

NoResult == [kind |-> "none", exc |-> NoExc, val |-> NoVal]
Raised(e) == [kind |-> "raise", exc |-> e, val |-> NoVal]
Returned(v) == [kind |-> "return", exc |-> NoExc, val |-> v]

\* ------------------------------------------------------- the admin record
\* Fields of AdminInfo (two of its string fields stand for all of them), a
\* member no dataclass field has, and the values members take.
AdminFields == {"email", "username"}
UnknownKeys == {"extra"}
FieldValues == {"a@b.com", "x"}
AdminDefault(f) == ""

\* The "data" object of the admin-info response: its own members and its
\* "info" member, which is absent, a JSON object, or a value of another type.
Dicts == UNION {[K -> FieldValues] : K \in SUBSET (AdminFields \cup UnknownKeys)}
NoInfo == [kind |-> "absent", d |-> EmptyDict]
InfoValues ==
    {NoInfo, [kind |-> "other", d |-> EmptyDict]}
    \cup {[kind |-> "dict", d |-> d] : d \in Dicts}
NoBody == [top |-> EmptyDict, info |-> NoInfo]
AdminBodies == {[top |-> d, info |-> i] : d \in Dicts, i \in InfoValues}
\* data.info.email = "a@b.com" and no top-level email
ExampleBody ==
    [top |-> [k \in {"username"} |-> "x"],
     info |-> [kind |-> "dict", d |-> [k \in {"email"} |-> "a@b.com"]]]

\* "data.update(info_data)"
UpdateKeepsOld(d, e) ==
    [k \in DOMAIN d \cup DOMAIN e |-> IF k \in DOMAIN d THEN d[k] ELSE e[k]]
Update(d, e) ==
    [k \in DOMAIN d \cup DOMAIN e |-> IF k \in DOMAIN e THEN e[k] ELSE d[k]]

\* The data dict after "if "info" in data and isinstance(data["info"], dict):
\* info_data = data.pop("info"); data.update(info_data)"; an info member of
\* another type stays in the dict.
Flatten(body) ==
    CASE body.info.kind = "dict" -> Update(body.top, body.info.d)
      [] body.info.kind = "other" ->
            Update(body.top, [k \in {"info"} |-> "not-a-dict"])
      [] OTHER -> body.top

\* AdminInfo.from_dict(data): each field from the member of its name, or its
\* default; other members are ignored.
AdminFromDict(data) ==
    [f \in AdminFields |->
        IF f \in DOMAIN data THEN data[f] ELSE AdminDefault(f)]

\* The record class each operation decodes into.
RecordType(op) ==
    CASE op = "get_overview" -> "OverviewData"
      [] op = "get_list" -> "PlantData"
      [] op = "get_inverters" -> "InverterData"
      [] op = "get_admin_info" -> "AdminInfo"

\* X.from_dict(data) on the data of the g-th GET of the call: the decoded
\* record is identified by the response it was decoded from.
\* For AdminInfo the fields are decoded from the body as well.
FromDict(op, g, body) ==
    [type |-> RecordType(op), src |-> g, items |-> <<>>,
     fields |-> IF op = "get_admin_info" THEN AdminFromDict(Flatten(body))
                ELSE EmptyDict]
\* X(): the record with every field at its default.
DefaultRecord(op) ==
    [type |-> RecordType(op), src |-> 0, items |-> <<>>,
     fields |-> IF op = "get_admin_info" THEN AdminFromDict(EmptyDict)
                ELSE EmptyDict]
\* [InverterData.from_dict(item) for item in data_list], n items of GET g.
DecodeItems(g, n) == [i \in 1..n |-> [src |-> g, idx |-> i]]
ListVal(g, items) ==
    [type |-> "list", src |-> g, items |-> items, fields |-> EmptyDict]
EmptyList == [type |-> "list", src |-> 0, items |-> <<>>, fields |-> EmptyDict]

\* ---------------------------------------------------------------- sessions
NoSession == [k |-> "none", n |-> 0]
CallerSession == [k |-> "caller", n |-> 0]
OwnSession(n) == [k |-> "own", n |-> n]

\* ------------------------------------------------------- server responses
\* What the transport hands back for the login POST: a response with a
\* status and, for 200, a body that may carry data.token; or an exception
\* raised by aiohttp (ClientError for connection failures, TimeoutError when
\* the ClientTimeout(total=...) of the request expires).
TransportExcs == {"ClientError", "TimeoutError"}
LoginResp(st, has, tok) ==
    [kind |-> "resp", status |-> st, has |-> has, tok |-> tok, exc |-> "none"]
LoginOutcomes ==
    {LoginResp(st, FALSE, "") :
        st \in {HTTP_OK, HTTP_UNAUTHORIZED, HTTP_TOO_MANY} \cup OtherStatuses}
    \cup {LoginResp(HTTP_OK, TRUE, k) : k \in ServerTokens}
    \cup {[kind |-> "exc", status |-> 0, has |-> FALSE, tok |-> "", exc |-> x] :
            x \in TransportExcs}

\* What the transport hands back for a GET.  hasData: the JSON body has a
\* "data" member; hasTotal/totalPage: the "totalPage" member; nrec: the
\* length of the data list.  Members an operation never reads are fixed.
GetResp(st, hasData, hasTotal, tp, n) ==
    [kind |-> "resp", status |-> st, hasData |-> hasData, hasTotal |-> hasTotal,
     totalPage |-> tp, nrec |-> n, exc |-> "none", body |-> NoBody]
\* The well-formed admin-info responses with the data objects bodies.
AdminOutcomes(bodies) ==
    {[GetResp(HTTP_OK, TRUE, FALSE, 0, 0) EXCEPT !.body = b] : b \in bodies}
GetErrStatuses == {HTTP_UNAUTHORIZED} \cup OtherStatuses
\* The well-formed pages of the inverter endpoint: a data list of up to mr
\* items, with or without a totalPage of up to mp.
PageOutcomes(mp, mr) ==
    {GetResp(HTTP_OK, TRUE, FALSE, 0, n) : n \in 0..mr}
    \cup {GetResp(HTTP_OK, TRUE, TRUE, tp, n) : tp \in 0..mp, n \in 0..mr}
GetOutcomes(op) ==
    {GetResp(HTTP_TOO_MANY, FALSE, FALSE, 0, 0)}
    \cup {GetResp(st, d, FALSE, 0, 0) :
            st \in GetErrStatuses,
            d \in (IF op = "get_list" THEN BOOLEAN ELSE {FALSE})}
    \cup {GetResp(HTTP_OK, FALSE, FALSE, 0, 0)}
    \cup (CASE op = "get_inverters" -> PageOutcomes(MaxPages, MaxRecs)
            [] op = "get_admin_info" -> AdminOutcomes({ExampleBody})
            [] OTHER -> {GetResp(HTTP_OK, TRUE, FALSE, 0, 0)})
    \cup {[kind |-> "exc", status |-> 0, hasData |-> FALSE, hasTotal |-> FALSE,
           totalPage |-> 0, nrec |-> 0, exc |-> x, body |-> NoBody] :
            x \in TransportExcs}

\* The class of a GET outcome, as the claims name it.
GetClass(out) ==
    CASE out.kind = "exc" -> out.exc
      [] out.status = HTTP_TOO_MANY -> "429"
      [] out.status # HTTP_OK -> IF out.hasData THEN "errdata" ELSE "err"
      [] out.hasData -> "ok"
      [] OTHER -> "nodata"
LoginClass(out) ==
    CASE out.kind = "exc" -> out.exc
      [] out.status = HTTP_UNAUTHORIZED -> "401"
      [] out.status = HTTP_TOO_MANY -> "429"
      [] out.status # HTTP_OK -> "err"
      [] out.has -> "ok"
      [] OTHER -> "notoken"

\* ------------------------------------------------------------------ frames
\* One invocation of connect() or of a fetch operation.  pc is the
\* suspension point the coroutine waits at; site is where the frame stands
\* relative to its try statement ("pre": before it, "try": in the try
\* body, "except": in an except handler).
NewFrame(op, retries) ==
    [op |-> op, retries |-> retries, pc |-> "start", site |-> "pre",
     page |-> 1, total_pages |-> 1, all_inverters |-> <<>>, hdr |-> ""]

\* self.get_X(retries - 1): the frame of the recursive call made by frame f.
RetryFrameKeepsRecords(f) ==
    [NewFrame(f.op, f.retries - 1) EXCEPT !.all_inverters = f.all_inverters]
RetryFrame(f) == NewFrame(f.op, f.retries - 1)

\* Frame f while it awaits its recursive call.  Every recursive call is
\* "return await ...": nothing but retries and the handler position is read
\* again, so the other locals are dropped.
Suspend(f, site) ==
    [NewFrame(f.op, f.retries) EXCEPT !.pc = "nested", !.site = site]

\* "if retries > 0"
CanRetryInclusive(retries) == retries >= 0
CanRetry(retries) == retries > 0

Top(stk) == stk[Len(stk)]
Pop(stk) == SubSeq(stk, 1, Len(stk) - 1)
SetTop(stk, f) == [stk EXCEPT ![Len(stk)] = f]

\* ------------------------------------------------------ exception handling
\* The except clauses of connect() applied to an exception raised in its
\* try body.
ConnectHandlerNoKeyError(e) ==
    CASE e.type = "ClientError" -> Exc("RequestError")
      [] OTHER -> e
ConnectHandler(e) ==
    CASE e.type = "ClientError" -> Exc("RequestError")
      [] e.type = "KeyError" -> Exc("AuthenticationError")
      [] OTHER -> e

\* Whether an except clause of the fetch operation matches the exception:
\* get_list has "except Exception", the others "except KeyError" and
\* "except aiohttp.ClientError".
CatchesEverything(op, type) == TRUE
Catches(op, type) ==
    IF op = "get_list" THEN TRUE ELSE type \in {"KeyError", "ClientError"}

RetryResult == [kind |-> "retry", exc |-> NoExc, val |-> NoVal]

\* The body of the matching except clause: call the operation again,
\* return a default, or raise.
DegradedValueUniform(op) == DefaultRecord(op)
DegradedValue(op) ==
    IF op = "get_inverters" THEN EmptyList ELSE DefaultRecord(op)
Handler(op, e, retries) ==
    IF op = "get_list"
    THEN IF CanRetry(retries) THEN RetryResult
         ELSE Raised(Exc("RequestError"))
    ELSE IF e.type = "KeyError"
         THEN IF CanRetry(retries) THEN RetryResult
              ELSE Returned(DegradedValue(op))
         ELSE Raised(Exc("RequestError"))

\* Exception e raised in the top frame of stk: it travels outwards through
\* the frames until an except clause of a frame standing in its try body
\* matches; an exception raised by a handler leaves that frame.  A frame
\* that returns makes every enclosing frame return the same value.
RECURSIVE Unwind(_, _)
Unwind(stk, e) ==
    IF stk = <<>> THEN [stack |-> <<>>, result |-> Raised(e)]
    ELSE LET f == Top(stk) IN
         IF f.site = "try" /\ Catches(f.op, e.type)
         THEN LET h == Handler(f.op, e, f.retries) IN
              CASE h.kind = "retry" ->
                     [stack |-> Append(SetTop(stk, Suspend(f, "except")),
                                       RetryFrame(f)),
                      result |-> NoResult]
                [] h.kind = "return" -> [stack |-> <<>>, result |-> h]
                [] OTHER -> Unwind(Pop(stk), h.exc)
         ELSE Unwind(Pop(stk), e)

ReturnAll(v) == [stack |-> <<>>, result |-> Returned(v)]
Continue(stk) == [stack |-> stk, result |-> NoResult]

\* ------------------------------------------------------------------- state
VARIABLES
    token,              \* self.__token
    token_expires_at,   \* self.__token_expires_at (whole seconds)
    session,            \* self._session
    own_session,        \* self._own_session
    sessOpen,           \* the ClientSession objects that are not closed
    nCreated,           \* ClientSession objects created by the manager
    life,               \* the last of __init__, __aenter__, __aexit__, close()
    now,                \* time(), in half seconds
    ticks,              \* clock advances so far
    stack,              \* per task: the frames of the running call
    result,             \* per task: how the last call ended
    op,                 \* per task: the operation called
    budget,             \* per task: the retries argument of the call
    gets,               \* per task: GET requests sent by the call
    posts,              \* per task: login POSTs sent by the call
    waited,             \* per task: seconds of asyncio.sleep completed
    getSeen,            \* per task: classes of the GET outcomes of the call
    postSeen,           \* per task: classes of the login outcomes
    walkRecs,           \* per task: records served since the last page-1 GET
    walkPages,          \* per task: page numbers requested since then
    walkResp,           \* per task: the well-formed responses to them
    hadValid,           \* per task: the token was valid when connect() ran
    fails,              \* per task: GET outcomes other than a well-formed 200
    ncalls,             \* calls started
    totalPosts,         \* login POSTs of all calls
    connectsOnly,       \* every call so far was connect()
    loginToks,          \* the tokens successful logins have returned
    lastBody            \* the data object of the last well-formed response

mgrVars == <<token, token_expires_at, session, own_session, sessOpen, nCreated,
            life>>
clockVars == <<now, ticks>>
callVars == <<stack, result, op, budget>>
ghostVars == <<gets, posts, waited, getSeen, postSeen, walkRecs, walkPages,
              walkResp, hadValid, fails>>
histVars == <<ncalls, totalPosts, connectsOnly, loginToks, lastBody>>
vars == <<mgrVars, clockVars, callVars, ghostVars, histVars>>

\* "self.__token and self.__token_expires_at > time()"
TokenValidInclusive(tok, exp, t) == tok # "" /\ Seconds(exp) >= t
TokenValid(tok, exp, t) == tok # "" /\ Seconds(exp) > t

\* __init__: no token, expiry 0, the session the caller passed (or None).
Init ==
    /\ token = ""
    /\ token_expires_at = 0
    /\ session \in {NoSession, CallerSession}
    /\ own_session = (session = NoSession)
    /\ sessOpen = {CallerSession}
    /\ nCreated = 0
    /\ life = "new"
    /\ now \in {0, 1}
    /\ ticks = 0
    /\ stack = [t \in Tasks |-> <<>>]
    /\ result = [t \in Tasks |-> NoResult]
    /\ op = [t \in Tasks |-> "connect"]
    /\ budget = [t \in Tasks |-> 0]
    /\ gets = [t \in Tasks |-> 0]
    /\ posts = [t \in Tasks |-> 0]
    /\ waited = [t \in Tasks |-> 0]
    /\ getSeen = [t \in Tasks |-> {}]
    /\ postSeen = [t \in Tasks |-> {}]
    /\ walkRecs = [t \in Tasks |-> <<>>]
    /\ walkPages = [t \in Tasks |-> <<>>]
    /\ walkResp = [t \in Tasks |-> <<>>]
    /\ hadValid = [t \in Tasks |-> FALSE]
    /\ fails = [t \in Tasks |-> 0]
    /\ ncalls = 0
    /\ totalPosts = 0
    /\ connectsOnly = TRUE
    /\ loginToks = {}
    /\ lastBody = NoBody

\* The history of a call (outcomes seen, seconds slept, pages walked) is kept
\* for the sequential caller; the concurrent callers are observed through
\* their frames, results and request counts.
Log(t, new, old) == IF t \in SeqTasks THEN new ELSE old

Running(t) == stack[t] # <<>>
Done(t) == stack[t] = <<>> /\ result[t].kind # "none"
Idle == \A t \in Tasks : ~Running(t)

\* ----------------------------------------------------------- the lifecycle
\* __aenter__: "if self._own_session: self._session = ClientSession()"
AEnter ==
    /\ Idle
    /\ life # "entered"
    /\ own_session => nCreated < MaxSessions
    /\ session' = IF own_session THEN OwnSession(nCreated + 1) ELSE session
    /\ sessOpen' = IF own_session THEN sessOpen \cup {session'} ELSE sessOpen
    /\ nCreated' = IF own_session THEN nCreated + 1 ELSE nCreated
    /\ life' = "entered"
    /\ UNCHANGED <<token, token_expires_at, own_session>>
    /\ UNCHANGED <<clockVars, callVars, ghostVars, histVars>>

\* "if self._own_session and self._session: await self._session.close()"
CloseAnySession ==
    IF session # NoSession THEN sessOpen \ {session} ELSE sessOpen
CloseOwned ==
    IF own_session /\ session # NoSession THEN sessOpen \ {session} ELSE sessOpen

\* __aexit__, on the normal and on the error path of the with block
AExit ==
    /\ Idle
    /\ life = "entered"
    /\ sessOpen' = CloseOwned
    /\ life' = "exited"
    /\ UNCHANGED <<token, token_expires_at, session, own_session, nCreated>>
    /\ UNCHANGED <<clockVars, callVars, ghostVars, histVars>>

\* close(), outside the with block
Close ==
    /\ Idle
    /\ life # "entered"
    /\ sessOpen' = CloseOwned
    /\ life' = "closed"
    /\ UNCHANGED <<token, token_expires_at, session, own_session, nCreated>>
    /\ UNCHANGED <<clockVars, callVars, ghostVars, histVars>>

\* ------------------------------------------------------------------- clock
Tick(d) ==
    /\ ticks < MaxTicks
    /\ now' = now + d
    /\ ticks' = ticks + 1
    /\ UNCHANGED <<mgrVars, callVars, ghostVars, histVars>>

\* ------------------------------------------------------------------- calls
\* A caller invokes operation o with retries = n.
StartCall(t, o, n) ==
    /\ ~Running(t)
    /\ ncalls < MaxCalls
    /\ stack' = [stack EXCEPT ![t] = <<NewFrame(o, n)>>]
    /\ result' = [result EXCEPT ![t] = NoResult]
    /\ op' = [op EXCEPT ![t] = o]
    /\ budget' = [budget EXCEPT ![t] = n]
    /\ gets' = [gets EXCEPT ![t] = 0]
    /\ posts' = [posts EXCEPT ![t] = 0]
    /\ waited' = [waited EXCEPT ![t] = 0]
    /\ getSeen' = [getSeen EXCEPT ![t] = {}]
    /\ postSeen' = [postSeen EXCEPT ![t] = {}]
    /\ walkRecs' = [walkRecs EXCEPT ![t] = <<>>]
    /\ walkPages' = [walkPages EXCEPT ![t] = <<>>]
    /\ walkResp' = [walkResp EXCEPT ![t] = <<>>]
    /\ hadValid' = [hadValid EXCEPT ![t] = FALSE]
    /\ fails' = [fails EXCEPT ![t] = 0]
    /\ ncalls' = ncalls + 1
    /\ connectsOnly' = (connectsOnly /\ o = "connect")
    /\ UNCHANGED <<mgrVars, clockVars, totalPosts, loginToks, lastBody>>

\* The statements from the session assertion to the GET of frame f: the
\* assertion fails without a session; the request leaves with "Bearer tok";
\* a closed ClientSession raises RuntimeError instead, in the try body.
SendGet(stk, f, tok, sess, open) ==
    IF sess = NoSession THEN Unwind(stk, Exc("AssertionError"))
    ELSE IF sess \in open
         THEN Continue(SetTop(stk, [f EXCEPT !.pc = "get_wait",
                                             !.site = "try", !.hdr = tok]))
         ELSE Unwind(SetTop(stk, [f EXCEPT !.site = "try"]),
                     Exc("RuntimeError"))
GetLeaves(sess, open) == sess # NoSession /\ sess \in open

\* Whether the operation starts with "await self.connect()".
CallsConnect(o) == o # "get_list"

\* A frame runs from its first statement to its first suspension point:
\* connect()'s validity test, the lazily created session and the login
\* POST, or else the GET.
Enter(t) ==
    /\ Running(t)
    /\ Top(stack[t]).pc = "start"
    /\ LET stk == stack[t]
           f == Top(stk)
           valid == TokenValid(token, token_expires_at, now)
           login == CallsConnect(f.op) /\ ~valid
           create == login /\ session = NoSession
           sess1 == IF create THEN OwnSession(nCreated + 1) ELSE session
           open1 == IF create THEN sessOpen \cup {sess1} ELSE sessOpen
           u == CASE login ->
                       IF sess1 \in open1
                       THEN Continue(SetTop(stk, [f EXCEPT !.pc = "post_wait"]))
                       ELSE Unwind(stk, ConnectHandler(Exc("RuntimeError")))
                  [] f.op = "connect" -> ReturnAll(NoneVal)
                  [] OTHER -> SendGet(stk, f, token, sess1, open1)
           posted == login /\ sess1 \in open1
           got == ~login /\ f.op # "connect" /\ GetLeaves(sess1, open1)
       IN /\ session' = sess1
          /\ sessOpen' = open1
          /\ own_session' = IF create THEN TRUE ELSE own_session
          /\ nCreated' = IF create THEN nCreated + 1 ELSE nCreated
          /\ stack' = [stack EXCEPT ![t] = u.stack]
          /\ result' = [result EXCEPT ![t] = u.result]
          /\ posts' = [posts EXCEPT ![t] = IF posted THEN @ + 1 ELSE @]
          /\ totalPosts' = IF posted THEN totalPosts + 1 ELSE totalPosts
          /\ gets' = [gets EXCEPT ![t] = IF got THEN @ + 1 ELSE @]
          /\ walkRecs' = [walkRecs EXCEPT ![t] = IF got THEN <<>> ELSE @]
          /\ walkPages' = [walkPages EXCEPT ![t] =
                             IF got THEN Log(t, <<f.page>>, @) ELSE @]
          /\ walkResp' = [walkResp EXCEPT ![t] = IF got THEN <<>> ELSE @]
          /\ hadValid' = [hadValid EXCEPT ![t] =
                            IF f.op = "get_list" THEN @
                            ELSE Log(t, token # ""
                                        /\ Seconds(token_expires_at) > now, @)]
    /\ UNCHANGED <<token, token_expires_at, life, clockVars, op, budget>>
    /\ UNCHANGED <<waited, getSeen, postSeen, fails>>
    /\ UNCHANGED <<ncalls, connectsOnly, loginToks, lastBody>>

\* The exception the try body of connect() raises on the login outcome
\* (NoExc: none, the login succeeded).
LoginRaise(out) ==
    CASE out.kind = "exc" -> Exc(out.exc)
      [] out.status = HTTP_UNAUTHORIZED -> Exc("AuthenticationError")
      [] out.status = HTTP_TOO_MANY -> Exc("RateLimitError")
      [] out.status # HTTP_OK -> ExcStatus("RequestError", out.status)
      [] ~out.has -> Exc("KeyError")
      [] OTHER -> NoExc

\* "self.__token_expires_at = int(time()) + self.token_validity"
NewExpiry(t) == IntTime(t) + token_validity

\* "self.__token = result["data"]["token"]", reached only when the try body
\* raised nothing (e is NoExc).
TokenAfterClearsOnError(e, new, old) == IF e.type = "none" THEN new ELSE ""
TokenAfter(e, new, old) == IF e.type = "none" THEN new ELSE old

\* "self.__token_expires_at = ...", the statement after it.
ExpiryAfterNotSet(e, new, old) == old
ExpiryAfter(e, new, old) == IF e.type = "none" THEN new ELSE old

\* The login response arrives: connect() raises, or stores token and
\* expiry and returns; a fetch operation then goes on to its GET.
LoginResponse(t, out) ==
    /\ Running(t)
    /\ Top(stack[t]).pc = "post_wait"
    /\ LET stk == stack[t]
           f == Top(stk)
           e == LoginRaise(out)
           ok == e.type = "none"
           u == IF ~ok THEN Unwind(stk, ConnectHandler(e))
                ELSE IF f.op = "connect" THEN ReturnAll(NoneVal)
                ELSE SendGet(stk, f, out.tok, session, sessOpen)
           got == ok /\ f.op # "connect" /\ GetLeaves(session, sessOpen)
       IN /\ token' = TokenAfter(e, out.tok, token)
          /\ now' = IF ok THEN Rebase(now) ELSE now
          /\ token_expires_at' = ExpiryAfter(e, NewExpiry(now'), token_expires_at)
          /\ stack' = [stack EXCEPT ![t] = u.stack]
          /\ result' = [result EXCEPT ![t] = u.result]
          /\ gets' = [gets EXCEPT ![t] = IF got THEN @ + 1 ELSE @]
          /\ walkRecs' = [walkRecs EXCEPT ![t] = IF got THEN <<>> ELSE @]
          /\ walkPages' = [walkPages EXCEPT ![t] =
                             IF got THEN Log(t, <<f.page>>, @) ELSE @]
          /\ walkResp' = [walkResp EXCEPT ![t] = IF got THEN <<>> ELSE @]
          /\ loginToks' = IF ok THEN loginToks \cup {out.tok} ELSE loginToks
          /\ postSeen' = [postSeen EXCEPT ![t] =
                            Log(t, @ \cup {LoginClass(out)}, @)]
    /\ UNCHANGED <<session, own_session, sessOpen, nCreated, life, ticks>>
    /\ UNCHANGED <<op, budget, posts, waited, getSeen, hadValid, fails>>
    /\ UNCHANGED <<ncalls, totalPosts, connectsOnly, lastBody>>

\* What the try body of a fetch operation does with the outcome of its GET:
\* sleep and call itself again, raise, or decode the body.
SleepStep == [kind |-> "sleep", exc |-> NoExc, val |-> NoVal]
DecodeStep == [kind |-> "decode", exc |-> NoExc, val |-> NoVal]
OnGetStatusRaises(o, out, retries) ==
    CASE out.kind = "exc" -> Raised(Exc(out.exc))
      [] out.status = HTTP_TOO_MANY ->
            IF CanRetry(retries) THEN SleepStep
            ELSE Raised(Exc("RateLimitError"))
      [] out.status # HTTP_OK /\ CanRetry(retries) -> SleepStep
      [] out.status # HTTP_OK -> Raised(ExcStatus("RequestError", out.status))
      [] ~out.hasData -> Raised(Exc("KeyError"))
      [] OTHER -> DecodeStep
OnGet(o, out, retries) ==
    CASE out.kind = "exc" -> Raised(Exc(out.exc))
      [] out.status = HTTP_TOO_MANY ->
            IF CanRetry(retries) THEN SleepStep
            ELSE Raised(Exc("RateLimitError"))
      [] out.status # HTTP_OK /\ CanRetry(retries) -> SleepStep
      [] out.status # HTTP_OK /\ o # "get_list" ->
            Raised(ExcStatus("RequestError", out.status))
      [] ~out.hasData -> Raised(Exc("KeyError"))
      [] OTHER -> DecodeStep

\* "if "totalPage" in result: total_pages = result["totalPage"]", in the
\* iteration of page number page.
TotalPagesOfFirstPage(page, old, out) ==
    IF out.hasTotal /\ page = 1 THEN out.totalPage ELSE old
TotalPages(page, old, out) == IF out.hasTotal THEN out.totalPage ELSE old

\* "all_inverters.extend(inverters)"
ExtendAtFront(acc, recs) == recs \o acc
Extend(acc, recs) == acc \o recs

\* The response of the GET arrives.
GetResponse(t, out) ==
    /\ Running(t)
    /\ Top(stack[t]).pc = "get_wait"
    /\ LET stk == stack[t]
           f == Top(stk)
           g == gets[t]
           a == OnGet(f.op, out, f.retries)
           recs == DecodeItems(g, out.nrec)
           f2 == [f EXCEPT !.total_pages = TotalPages(f.page, @, out),
                           !.all_inverters = Extend(@, recs),
                           !.page = @ + 1]
           more == f.op = "get_inverters" /\ a.kind = "decode"
                   /\ f2.page <= f2.total_pages
           u == CASE a.kind = "sleep" -> Continue(SetTop(stk, [f EXCEPT !.pc = "sleep"]))
                  [] a.kind = "raise" -> Unwind(stk, a.exc)
                  [] f.op = "get_inverters" ->
                        IF more THEN SendGet(stk, f2, token, session, sessOpen)
                        ELSE ReturnAll(ListVal(0, f2.all_inverters))
                  [] f.op = "get_list" -> ReturnAll(ListVal(g, <<>>))
                  [] OTHER -> ReturnAll(FromDict(f.op, g, out.body))
           got == more /\ GetLeaves(session, sessOpen)
       IN /\ stack' = [stack EXCEPT ![t] = u.stack]
          /\ result' = [result EXCEPT ![t] = u.result]
          /\ gets' = [gets EXCEPT ![t] = IF got THEN @ + 1 ELSE @]
          /\ getSeen' = [getSeen EXCEPT ![t] = Log(t, @ \cup {GetClass(out)}, @)]
          /\ fails' = [fails EXCEPT ![t] =
                         IF GetClass(out) = "ok" THEN @ ELSE Log(t, @ + 1, @)]
          /\ walkRecs' = [walkRecs EXCEPT ![t] =
                            IF f.op = "get_inverters" /\ a.kind = "decode"
                            THEN Log(t, @ \o recs, @) ELSE @]
          /\ walkPages' = [walkPages EXCEPT ![t] =
                             IF got THEN Log(t, Append(@, f2.page), @) ELSE @]
          /\ walkResp' = [walkResp EXCEPT ![t] =
                            IF f.op = "get_inverters" /\ a.kind = "decode"
                            THEN Log(t, Append(@, out), @) ELSE @]
          /\ lastBody' = IF a.kind = "decode" THEN out.body ELSE lastBody
    /\ UNCHANGED <<mgrVars, clockVars, op, budget>>
    /\ UNCHANGED <<posts, waited, postSeen, hadValid>>
    /\ UNCHANGED <<ncalls, totalPosts, connectsOnly, loginToks>>

\* "await asyncio.sleep(10)" ends and the operation calls itself.
SleepSecondsShort == BackoffSeconds \div 10
SleepSeconds == BackoffSeconds
SleepDone(t) ==
    /\ Running(t)
    /\ Top(stack[t]).pc = "sleep"
    /\ LET stk == stack[t]
           f == Top(stk)
       IN stack' = [stack EXCEPT ![t] =
                      Append(SetTop(stk, Suspend(f, "try")), RetryFrame(f))]
    /\ now' = now + Seconds(SleepSeconds)
    /\ waited' = [waited EXCEPT ![t] = Log(t, @ + SleepSeconds, @)]
    /\ UNCHANGED <<mgrVars, ticks, result, op, budget>>
    /\ UNCHANGED <<gets, posts, getSeen, postSeen, walkRecs, walkPages, walkResp>>
    /\ UNCHANGED <<hadValid, fails, histVars>>

\* ------------------------------------------------------------ specification
\* The outcomes the server may give to the GET task t waits for.
OutcomesFor(t) ==
    IF Running(t) THEN GetOutcomes(Top(stack[t]).op) ELSE {}

TaskStep(t) ==
    \/ \E o \in Ops, n \in 0..MaxRetries : StartCall(t, o, n)
    \/ Enter(t)
    \/ \E out \in LoginOutcomes : LoginResponse(t, out)
    \/ \E out \in OutcomesFor(t) : GetResponse(t, out)
    \/ SleepDone(t)

\* One caller that awaits each operation before it invokes the next.
Next ==
    \/ \E t \in SeqTasks : TaskStep(t)
    \/ \E d \in TickDeltas : Tick(d)

Spec == Init /\ [][Next]_vars

\* The same caller, who also enters and leaves the context and calls close().
NextLife ==
    \/ Next
    \/ AEnter
    \/ AExit
    \/ Close

SpecLife == Init /\ [][NextLife]_vars

\* The caller cancels the task of a running operation: CancelledError is
\* thrown into the coroutine at the await it is suspended at; it is a
\* BaseException, which no except clause of the client matches.
Cancel(t) ==
    /\ Running(t)
    /\ stack' = [stack EXCEPT ![t] = <<>>]
    /\ result' = [result EXCEPT ![t] = Raised(Exc("CancelledError"))]
    /\ UNCHANGED <<mgrVars, clockVars, op, budget, ghostVars, histVars>>

\* The steps of a concurrent task that is the (k+1)-th to be started.
ConcStep(t, k) ==
    \/ \E o \in ConcOps, n \in 0..MaxRetries :
          ncalls = k /\ StartCall(t, o, n)
    \/ Enter(t)
    \/ \E out \in LoginOutcomes : LoginResponse(t, out)
    \/ \E out \in OutcomesFor(t) : GetResponse(t, out)
    \/ SleepDone(t)
    \/ Cancel(t)

\* Two operations run as concurrent tasks on one manager, t2 started first;
\* control changes hands only where a coroutine is suspended, and the clock
\* advances with the backoff sleeps.
NextConc ==
    \/ ConcStep("t2", 0)
    \/ ConcStep("t3", 1)

SpecConc == Init /\ [][NextConc]_vars

\* One call of get_inverters against a server with longer pages and larger
\* page counts.
NextWalk ==
    \/ \E n \in 0..MaxRetries :
          ncalls < MaxWalkCalls /\ StartCall("t1", "get_inverters", n)
    \/ Enter("t1")
    \/ \E out \in LoginOutcomes : LoginResponse("t1", out)
    \/ \E out \in OutcomesFor("t1") \cup PageOutcomes(MaxWalkPages, MaxWalkRecs) :
          GetResponse("t1", out)
    \/ SleepDone("t1")
    \/ \E d \in TickDeltas : Tick(d)

SpecWalk == Init /\ [][NextWalk]_vars

AnyAdminOutcome == AdminOutcomes(AdminBodies)

\* One call of get_admin_info against a server that answers with any of the
\* data objects.
NextAdmin ==
    \/ \E n \in 0..MaxRetries :
          ncalls < MaxAdminCalls /\ StartCall("t1", "get_admin_info", n)
    \/ Enter("t1")
    \/ \E out \in LoginOutcomes : LoginResponse("t1", out)
    \/ \E out \in OutcomesFor("t1") \cup AnyAdminOutcome :
          GetResponse("t1", out)
    \/ SleepDone("t1")
    \/ \E d \in TickDeltas : Tick(d)

SpecAdmin == Init /\ [][NextAdmin]_vars

\* ================================================================== claims
\* Logins of the call that did not fail, and statuses the claims group.
LoginsOk(t) == postSeen[t] \subseteq {"ok"}
Failed(t, type) == result[t].kind = "raise" /\ result[t].exc.type = type

\* C1: a fetch operation called with retries = N against a server that
\* answers every GET with 429 sends exactly N+1 GETs and then fails with
\* RateLimitError.
C1_RetryBound429 ==
    \A t \in Tasks :
        (Done(t) /\ op[t] \in FetchOps /\ getSeen[t] = {"429"} /\ LoginsOk(t))
        => /\ gets[t] = budget[t] + 1
           /\ result[t] = Raised(Exc("RateLimitError"))

\* C2: connect() sends no login POST when the token is non-empty and its
\* expiry is strictly later than the current time, and exactly one POST
\* otherwise; two connect() calls on a fresh manager, the second of which
\* finds the token of the first still valid, send one POST in total.
C2_ConnectLogins ==
    \A t \in Tasks :
        (Done(t) /\ op[t] = "connect" /\ ~Failed(t, "RuntimeError"))
        => /\ posts[t] = IF hadValid[t] THEN 0 ELSE 1
           /\ (connectsOnly /\ ncalls = 2 /\ hadValid[t]) => totalPosts = 1

C2_Witness ==
    \E t \in Tasks :
        /\ Done(t) /\ op[t] = "connect" /\ connectsOnly /\ ncalls = 2
        /\ hadValid[t] /\ posts[t] = 0 /\ totalPosts = 1

\* C3: no GET of a fetch operation is sent while the manager holds no
\* token: every GET in flight carries a non-empty bearer token.
C3_GetCarriesToken ==
    \A t \in Tasks :
        (Running(t) /\ Top(stack[t]).pc = "get_wait") => Top(stack[t]).hdr # ""

\* C4: token and expiry change only in the step that completes a
\* successful login (200 with data.token); failed logins, fetch and retry
\* steps, clock steps and close() leave both unchanged.
C4_TokenFrame ==
    [][(token' # token \/ token_expires_at' # token_expires_at)
        => \E t \in Tasks, out \in LoginOutcomes :
              LoginClass(out) = "ok" /\ LoginResponse(t, out)]_vars

C4_Witness ==
    \E t \in Tasks :
        /\ Done(t) /\ op[t] = "connect" /\ posts[t] = 1 /\ ncalls = 1
        /\ result[t].kind = "raise" /\ token = "" /\ token_expires_at = 0

\* C5: a transport failure (connection error or timeout) of the GET of a
\* fetch operation, or of the login POST, ends the call at once with
\* RequestError: no further request is sent.
C5_TransportFailsFast ==
    \A t \in Tasks :
        ((getSeen[t] \cup postSeen[t]) \cap TransportExcs # {})
        => Done(t) /\ result[t] = Raised(Exc("RequestError"))

\* C6: the single login POST of connect() is mapped to one result and never
\* retried: 401 -> AuthenticationError, 429 -> RateLimitError, another
\* non-200 status -> RequestError, 200 without data.token ->
\* AuthenticationError, 200 with data.token -> the token is stored, the
\* expiry is the (whole-second) login time plus 3600 and connect() returns.
LoginMapped(t, out) ==
    /\ posts'[t] = posts[t]
    /\ CASE out.status = HTTP_UNAUTHORIZED ->
               result'[t] = Raised(Exc("AuthenticationError"))
          [] out.status = HTTP_TOO_MANY ->
               result'[t] = Raised(Exc("RateLimitError"))
          [] out.status # HTTP_OK -> Failed(t, "RequestError")'
          [] ~out.has -> result'[t] = Raised(Exc("AuthenticationError"))
          [] OTHER -> /\ token' = out.tok
                      /\ token_expires_at' = IntTime(now') + token_validity
                      /\ op[t] = "connect" => result'[t] = Returned(NoneVal)
C6_LoginMapping ==
    [][\A t \in Tasks, out \in LoginOutcomes :
          (out.kind = "resp" /\ LoginResponse(t, out)) => LoginMapped(t, out)]_vars

C6_Witness ==
    \E t \in Tasks :
        /\ Done(t) /\ op[t] = "connect" /\ postSeen[t] = {"ok"} /\ posts[t] = 1
        /\ result[t] = Returned(NoneVal) /\ token \in ServerTokens
        /\ now = 1 /\ token_expires_at = token_validity

\* C7: get_overview, get_inverters and get_admin_info with retries = N,
\* every GET answered with a non-success status other than 429: N+1 GETs,
\* a backoff wait before each retry, then RequestError with the status of
\* the last response.
StatusOps == {"get_overview", "get_inverters", "get_admin_info"}
C7_StatusRetryBound ==
    /\ [](\A t \in Tasks :
            (Done(t) /\ op[t] \in StatusOps /\ getSeen[t] = {"err"} /\ LoginsOk(t))
            => /\ gets[t] = budget[t] + 1
               /\ waited[t] = BackoffSeconds * budget[t]
               /\ Failed(t, "RequestError"))
    /\ [][\A t \in Tasks, out \in GetOutcomes("get_overview") :
            (/\ op[t] \in StatusOps /\ GetClass(out) = "err"
             /\ GetResponse(t, out) /\ Done(t)')
            => result'[t] = Raised(ExcStatus("RequestError", out.status))]_vars

C7_Witness ==
    \E t \in Tasks :
        /\ Done(t) /\ op[t] = "get_admin_info" /\ getSeen[t] = {"err"}
        /\ budget[t] = 1 /\ gets[t] = 2 /\ waited[t] = BackoffSeconds
        /\ Failed(t, "RequestError") /\ result[t].exc.status = HTTP_UNAUTHORIZED

\* C8: every GET answered 200 with a body without "data": N+1 GETs with no
\* backoff wait, then get_overview and get_admin_info return the default
\* record, get_inverters the empty list, get_list fails with RequestError.
C8_MalformedBody ==
    \A t \in Tasks :
        (Done(t) /\ op[t] \in FetchOps /\ getSeen[t] = {"nodata"} /\ LoginsOk(t))
        => /\ gets[t] = budget[t] + 1
           /\ waited[t] = 0
           /\ result[t] = CASE op[t] = "get_list" -> Raised(Exc("RequestError"))
                            [] op[t] = "get_inverters" -> Returned(EmptyList)
                            [] OTHER -> Returned(DefaultRecord(op[t]))

C8_Witness ==
    \E t \in Tasks :
        /\ Done(t) /\ op[t] = "get_inverters" /\ getSeen[t] = {"nodata"}
        /\ budget[t] = 1 /\ gets[t] = 2 /\ result[t] = Returned(EmptyList)

\* C9: when the first k-1 GETs (k <= N+1) end in 429 or another non-success
\* status and the next is a well-formed 200, the operation returns the
\* payload decoded from that response after exactly k-1 waits of 10 s.
C9_RetryThenSuccess ==
    \A t \in Tasks :
        (/\ Done(t) /\ op[t] \in FetchOps /\ result[t].kind = "return"
         /\ "ok" \in getSeen[t]
         /\ getSeen[t] \subseteq {"429", "err", "errdata", "ok"}
         /\ fails[t] <= budget[t] /\ LoginsOk(t))
        => /\ waited[t] = BackoffSeconds * fails[t]
           /\ result[t].val =
                CASE op[t] = "get_inverters" -> ListVal(0, walkRecs[t])
                  [] op[t] = "get_list" -> ListVal(gets[t], <<>>)
                  [] OTHER -> FromDict(op[t], gets[t], lastBody)

C9_Witness ==
    \E t \in Tasks :
        /\ Done(t) /\ op[t] = "get_overview" /\ getSeen[t] = {"429", "ok"}
        /\ gets[t] = 2 /\ waited[t] = BackoffSeconds
        /\ result[t] = Returned(FromDict("get_overview", 2, NoBody))

\* C10: get_inverters restarts the walk at page 1 with the budget
\* decremented by one after a failure on any page, and what it returns is
\* the record sequence of one uninterrupted walk from page 1, or the empty
\* list once the budget is exhausted; never records of an aborted walk.
C10_WalkRestart ==
    \A t \in Tasks :
        /\ (Running(t) /\ op[t] = "get_inverters")
           => /\ \A i \in 1..Len(stack[t]) :
                    stack[t][i].retries = budget[t] - (i - 1)
              /\ Top(stack[t]).pc = "start"
                 => Top(stack[t]).page = 1 /\ Top(stack[t]).all_inverters = <<>>
              /\ Top(stack[t]).pc = "get_wait"
                 => Top(stack[t]).all_inverters = walkRecs[t]
        /\ (Done(t) /\ op[t] = "get_inverters" /\ result[t].kind = "return")
           => \/ result[t].val = ListVal(0, walkRecs[t])
              \/ /\ result[t].val = EmptyList
                 /\ "nodata" \in getSeen[t]
                 /\ fails[t] = budget[t] + 1

C10_Witness ==
    \E t \in Tasks :
        /\ Done(t) /\ op[t] = "get_inverters" /\ result[t].kind = "return"
        /\ fails[t] = 1 /\ gets[t] >= 3
        /\ result[t].val.items # <<>>
        /\ result[t].val.items[1].src >= 3

\* ------------------------------------------------------------- pagination
\* The records of the pages resps, page i decoded from the i-th GET, in page
\* order and within a page in response order.
RECURSIVE PagesConcat(_, _)
PagesConcat(resps, i) ==
    IF i > Len(resps) THEN <<>>
    ELSE DecodeItems(i, resps[i].nrec) \o PagesConcat(resps, i + 1)

\* Every GET of the call was answered with a well-formed 200.
CleanWalk(t) ==
    /\ Done(t) /\ op[t] = "get_inverters" /\ result[t].kind = "return"
    /\ fails[t] = 0 /\ LoginsOk(t)

\* C11: when every page request succeeds and every page reports
\* totalPage = T >= 1, get_inverters requests pages 1, 2, ..., T in that
\* order, each once, and returns the pages' records in page order and, within
\* a page, in response order.
C11_PaginationComplete ==
    \A t \in Tasks, T \in 1..MaxWalkPages :
        (/\ CleanWalk(t)
         /\ \A i \in 1..Len(walkResp[t]) :
               walkResp[t][i].hasTotal /\ walkResp[t][i].totalPage = T)
        => /\ walkPages[t] = [i \in 1..T |-> i]
           /\ gets[t] = T
           /\ result[t].val = ListVal(0, PagesConcat(walkResp[t], 1))

C11_Witness ==
    \E t \in Tasks :
        /\ CleanWalk(t)
        /\ walkPages[t] = <<1, 2, 3>>
        /\ \A i \in 1..3 : /\ walkResp[t][i].hasTotal
                            /\ walkResp[t][i].totalPage = 3
                            /\ walkResp[t][i].nrec = 2
        /\ Len(result[t].val.items) = 6
        /\ result[t].val.items[3] = [src |-> 2, idx |-> 1]
\* ------------------------------------------------------------ error kinds
ClassifiedErrors == {"AuthenticationError", "RateLimitError", "RequestError"}

\* C12: every failure connect() or a fetch operation surfaces to its caller
\* is an AuthenticationError, a RateLimitError or a RequestError.
C12_ClassifiedFailures ==
    \A t \in Tasks :
        result[t].kind = "raise" => result[t].exc.type \in ClassifiedErrors
\* ------------------------------------------------------------- concurrency
\* C13: in every interleaving of concurrent operations, and under
\* cancellation at any suspension point, token and expiry change together:
\* a step leaves both unchanged or sets the token to the token of a login and
\* the expiry to the whole second of that login plus the validity; no state
\* has a token without an expiry or an expiry without a token.
C13_TokenExpiryAtomic ==
    /\ [](token = "" <=> token_expires_at = 0)
    /\ [][\/ token' = token /\ token_expires_at' = token_expires_at
          \/ /\ token' \in ServerTokens
             /\ token_expires_at' = IntTime(now') + token_validity]_vars

C13_Witness ==
    \E a, b \in ConcTasks :
        /\ Failed(a, "CancelledError") /\ posts[a] = 1
        /\ Running(b) /\ Top(stack[b]).pc = "get_wait" /\ posts[b] = 1
        /\ loginToks = {"T1", "T2"}
        /\ token = Top(stack[b]).hdr /\ token_expires_at = token_validity

\* C14: two concurrent fetch operations on a manager without a valid token
\* may both send a login POST, and whenever logins have succeeded the manager
\* holds a token one of them returned and every GET in flight carries a token
\* a successful login returned.
C14_RefreshNotExclusive ==
    (/\ \A t \in ConcTasks : op[t] \in FetchOps /\ result[t].kind # "raise"
     /\ ncalls = 2 /\ loginToks # {})
    => /\ token \in loginToks /\ token_expires_at >= token_validity
       /\ \A t \in ConcTasks :
             (Running(t) /\ Top(stack[t]).pc = "get_wait")
             => Top(stack[t]).hdr \in loginToks

\* Both operations have a login POST in flight.
C14_BothLogin ==
    \A t \in ConcTasks :
        Running(t) /\ op[t] \in FetchOps /\ Top(stack[t]).pc = "post_wait"
\* --------------------------------------------------------------- lifecycle
\* C15: a session the caller supplied at construction stays the manager's
\* session and stays open through context entry, connect(), fetch
\* operations, context exit and close(); the manager never replaces it with
\* one of its own.
C15_CallerSessionKept ==
    /\ [](session = CallerSession
            => CallerSession \in sessOpen /\ ~own_session /\ nCreated = 0)
    /\ [][session = CallerSession => session' = CallerSession]_vars

C15_Witness ==
    /\ session = CallerSession /\ CallerSession \in sessOpen
    /\ life = "closed" /\ ncalls = 2 /\ Done("t1")
    /\ op["t1"] = "get_overview" /\ result["t1"].kind = "return"

\* C16: when the context is left or close() is called, no session the
\* manager created remains open; inside the context a session is
\* present; close() on a manager that created no session changes nothing.
C16_OwnSessionsClosed ==
    /\ [][(AExit \/ Close)
            => \A n \in 1..nCreated : OwnSession(n) \notin sessOpen']_vars
    /\ [](life = "entered" => session # NoSession)
    /\ [][(Close /\ nCreated = 0) => UNCHANGED <<session, sessOpen>>]_vars
\* -------------------------------------------------------------- admin info
\* C17: get_admin_info decodes the data object with the members of its
\* nested info object merged in: a field present in data.info has the nested
\* value, otherwise the top-level value, otherwise its default; members that
\* are no field of AdminInfo are ignored.
C17_AdminInfoFlattened ==
    (Done("t1") /\ op["t1"] = "get_admin_info" /\ "ok" \in getSeen["t1"])
    => LET b == lastBody
           r == result["t1"].val.fields
           nested == IF b.info.kind = "dict" THEN b.info.d ELSE EmptyDict
       IN /\ result["t1"].kind = "return"
          /\ result["t1"].val.type = "AdminInfo"
          /\ DOMAIN r = AdminFields
          /\ \A f \in AdminFields :
                r[f] = CASE f \in DOMAIN nested -> nested[f]
                         [] f \in DOMAIN b.top -> b.top[f]
                         [] OTHER -> AdminDefault(f)

C17_Witness ==
    /\ Done("t1") /\ op["t1"] = "get_admin_info" /\ "ok" \in getSeen["t1"]
    /\ lastBody.info.kind = "dict"
    /\ "email" \notin DOMAIN lastBody.top
    /\ "email" \in DOMAIN lastBody.info.d
    /\ lastBody.info.d["email"] = "a@b.com"
    /\ "extra" \in DOMAIN lastBody.info.d
    /\ "username" \notin DOMAIN lastBody.top \cup DOMAIN lastBody.info.d
    /\ result["t1"].val.fields = [f \in AdminFields |->
                                    IF f = "email" THEN "a@b.com" ELSE ""]
\* --------------------------------------------------------------- plant list
\* C18: in get_list a non-success status other than 429 received with
\* retries = 0 is not an error by itself: the body is decoded; the call
\* returns the decoded list when the body carries data, and the invocation
\* fails with RequestError when it does not.
C18_ListDecodesErrorBody ==
    [][\A t \in Tasks, out \in GetOutcomes("get_list") :
          (/\ Running(t) /\ op[t] = "get_list"
           /\ Top(stack[t]).retries = 0
           /\ out.kind = "resp" /\ out.status \in GetErrStatuses
           /\ GetResponse(t, out))
          => IF out.hasData
             THEN result'[t] = Returned(ListVal(gets[t], <<>>))
             ELSE budget[t] = 0 => result'[t] = Raised(Exc("RequestError"))]_vars

C18_Witness ==
    \E t \in Tasks :
        /\ Done(t) /\ op[t] = "get_list" /\ budget[t] = 1
        /\ getSeen[t] = {"err", "errdata"} /\ gets[t] = 2 /\ fails[t] = 2
        /\ result[t] = Returned(ListVal(2, <<>>))
\* ------------------------------------------------- failures of the login
\* C19: when the connect() of a fetch operation, on the first attempt or in
\* a retry, fails with AuthenticationError, RateLimitError or RequestError,
\* the operation fails with the same kind of error in that step, whatever
\* budget its invocations have left, and sends no further request.
C19_LoginFailurePropagates ==
    [][\A t \in Tasks, out \in LoginOutcomes :
          (/\ Running(t) /\ op[t] \in FetchOps
           /\ ConnectHandler(LoginRaise(out)).type \in ClassifiedErrors
           /\ LoginResponse(t, out))
          => /\ Done(t)'
             /\ Failed(t, ConnectHandler(LoginRaise(out)).type)'
             /\ gets'[t] = gets[t] /\ posts'[t] = posts[t]]_vars

\* A retry of get_overview found the token expired and its login was
\* refused.
C19_Witness ==
    \E t \in Tasks :
        /\ Done(t) /\ op[t] = "get_overview" /\ budget[t] = 1
        /\ getSeen[t] = {"429"} /\ gets[t] = 1 /\ waited[t] = BackoffSeconds
        /\ posts[t] = 2 /\ postSeen[t] = {"ok", "401"}
        /\ Failed(t, "AuthenticationError")
\* ------------------------------------------------------- end of the walk
\* The totalPage the first response of the walk reports (1 without one).
FirstTotal(resps) ==
    IF resps[1].hasTotal THEN resps[1].totalPage ELSE 1
\* The totalPage reported last among the first i responses (1 without one).
RECURSIVE LatestTotal(_, _)
LatestTotal(resps, i) ==
    IF i = 0 THEN 1
    ELSE IF resps[i].hasTotal THEN resps[i].totalPage
         ELSE LatestTotal(resps, i - 1)

\* C20 as stated: a walk whose page requests all succeed ends after exactly
\* the pages 1..T, T the totalPage of its first response (1 without one),
\* whatever the later pages report.
C20_FirstTotalDecides ==
    \A t \in Tasks :
        (CleanWalk(t) /\ FirstTotal(walkResp[t]) >= 1)
        => walkPages[t] = [i \in 1..FirstTotal(walkResp[t]) |-> i]

\* C20 amended: the walk ends after exactly the pages 1..k, k the first page
\* whose number reaches the totalPage reported last up to its response.
C20_LatestTotalDecides ==
    \A t \in Tasks :
        CleanWalk(t)
        => LET k == Len(walkResp[t])
           IN /\ walkPages[t] = [i \in 1..k |-> i]
              /\ gets[t] = k
              /\ LatestTotal(walkResp[t], k) <= k
              /\ \A i \in 1..(k - 1) : LatestTotal(walkResp[t], i) > i

C20_Witness ==
    \E t \in Tasks :
        /\ CleanWalk(t)
        /\ walkPages[t] = <<1, 2, 3>>
        /\ walkResp[t][1].hasTotal /\ walkResp[t][1].totalPage = 2
        /\ walkResp[t][2].hasTotal /\ walkResp[t][2].totalPage = 3
        /\ ~walkResp[t][3].hasTotal

\* ------------------------------------------------------------- termination
\* C21: in a call of a fetch operation with retries = N every retry is a
\* new invocation, nested in the one that retries, whose budget is smaller
\* by one: an enclosing invocation never starts a retry for an error a
\* nested one raised, and the call makes at most N+1 attempts (GETs, or
\* pagination walks of get_inverters), whatever the server answers.
C21_RetriesBounded ==
    /\ [](\A t \in Tasks :
            op[t] \in FetchOps
            => /\ \A i \in 1..Len(stack[t]) :
                     stack[t][i].retries = budget[t] - (i - 1)
               /\ Len(stack[t]) <= budget[t] + 1
               /\ op[t] # "get_inverters" => gets[t] <= budget[t] + 1)
    /\ [][\A t \in Tasks :
            (/\ op[t] \in FetchOps /\ Running(t) /\ Running(t)'
             /\ stack'[t] # stack[t]
             /\ Top(stack'[t]).pc = "start")
            => Len(stack'[t]) = Len(stack[t]) + 1]_vars

\* ------------------------------------------------- token of the page GETs
\* C22: every page GET of a get_inverters walk carries the manager's token
\* and that token is valid (non-empty, expiry later than the clock) in the
\* step that sends the request, also when the clock passes the expiry
\* between two pages of the walk.
C22_PageTokenValid ==
    [][\A t \in Tasks :
          (op[t] = "get_inverters" /\ gets'[t] = gets[t] + 1)
          => /\ Top(stack'[t]).hdr = token'
             /\ TokenValid(token', token_expires_at', now')]_vars

====
